---------------------------- MODULE Spec2Model ----------------------------
(***************************************************************************)
(* A model of rustlite: a single-table record store that keeps fixed-width *)
(* rows in fixed-size pages, caches the pages in memory and writes them to *)
(* one flat file when the table is closed.                                 *)
(*                                                                         *)
(* Byte buffers.  Every buffer of the program (a String, a Vec<u8>, a      *)
(* page, the file) starts zeroed or is a copy of such a buffer, and most   *)
(* of its bytes stay zero.  A buffer is therefore written                  *)
(*     [len |-> n, bytes |-> f]                                            *)
(* where f maps exactly the offsets in 0..n-1 that hold a NON-ZERO byte to *)
(* that byte (1..255).  Two buffers are equal as records exactly when they *)
(* have the same length and the same byte at every offset.                 *)
(***************************************************************************)
EXTENDS Integers, Sequences, FiniteSets, TLC

VARIABLES
    file,           \* the backing file: [len, chunks]
    status,         \* "off" | "running" | "closed" | "exit" | "panic"
    file_length,    \* Pager.file_length
    pages,          \* Pager.pages: slot -> None | Some(page buffer)
    num_rows,       \* Table.num_rows
    input_buffer,   \* InputBuffer.buffer: the line last read
    op,             \* the operation last performed
    result,         \* what that operation reported
    output,         \* what the last command's scan emitted, row by row
    inserted,       \* history: inserts that reported Success so far
    opens,          \* history: db_open calls so far
    late,           \* history: successful inserts of the sessions after the first
    codec           \* the codec under test: [pc, row, buf, out]

vars == <<file, status, file_length, pages, num_rows, input_buffer, op,
          result, output, inserted, opens, late, codec>>

-----------------------------------------------------------------------------
(* Constants of mem_storage.rs *)

ID_SIZE == 4
USERNAME_SIZE == 32
EMAIL_SIZE == 255

ID_OFFSET == 0
USERNAME_OFFSET == ID_OFFSET + ID_SIZE
EMAIL_OFFSET == USERNAME_OFFSET + USERNAME_SIZE
ROW_SIZE == ID_SIZE + USERNAME_SIZE + EMAIL_SIZE

PAGE_SIZE == 4096
TABLE_MAX_PAGES == 100
ROWS_PER_PAGE == PAGE_SIZE \div ROW_SIZE
TABLE_MAX_ROWS == ROWS_PER_PAGE * TABLE_MAX_PAGES

-----------------------------------------------------------------------------
(* Option, and the ways a call can fail to return *)

None == [some |-> FALSE]
Some(x) == [some |-> TRUE, v |-> x]
Panic == [panic |-> TRUE]

Min(S) == CHOOSE m \in S : \A n \in S : m <= n
Max(a, b) == IF a >= b THEN a ELSE b

-----------------------------------------------------------------------------
(* Byte buffers *)

\* [0u8; n]
Zeros(n) == [len |-> n, bytes |-> <<>>]

\* v[i]
Get(v, i) == IF i \in DOMAIN v.bytes THEN v.bytes[i] ELSE 0

\* v[from..to]
Slice(v, from, to) ==
    [len |-> to - from,
     bytes |-> [i \in {d - from : d \in {o \in DOMAIN v.bytes : o >= from /\ o < to}}
                  |-> v.bytes[i + from]]]

\* dst[off..off + src.len].copy_from_slice(src)
CopyFromSlice(dst, off, src) ==
    [len |-> dst.len,
     bytes |-> [i \in {o \in DOMAIN dst.bytes : o < off \/ o >= off + src.len}
                        \cup {off + o : o \in DOMAIN src.bytes}
                  |-> IF i >= off /\ i < off + src.len
                      THEN src.bytes[i - off] ELSE dst.bytes[i]]]

\* buffer.extend(v)
Extend(buffer, v) ==
    [len |-> buffer.len + v.len,
     bytes |-> [i \in DOMAIN buffer.bytes \cup {buffer.len + o : o \in DOMAIN v.bytes}
                  |-> IF i < buffer.len THEN buffer.bytes[i]
                      ELSE v.bytes[i - buffer.len]]]

\* A buffer from a dense sequence of bytes (s[1] is the byte at offset 0).
FromSeq(s) ==
    [len |-> Len(s),
     bytes |-> [i \in {k - 1 : k \in {j \in 1..Len(s) : s[j] # 0}} |-> s[i + 1]]]

\* n copies of the byte b.
Repeat(b, n) == [len |-> n, bytes |-> [i \in 0..(n - 1) |-> b]]

-----------------------------------------------------------------------------
(* Row codec *)

RECURSIVE Pow256(_)
Pow256(j) == IF j = 0 THEN 1 ELSE 256 * Pow256(j - 1)

\* The bytes of id, most significant first.
to_be_bytes(id) ==
    [len |-> ID_SIZE,
     bytes |-> [j \in {k \in 0..(ID_SIZE - 1) : (id \div Pow256(ID_SIZE - 1 - k)) % 256 # 0}
                  |-> (id \div Pow256(ID_SIZE - 1 - j)) % 256]]

\* u32::to_le_bytes
to_le_bytes(id) ==
    [len |-> ID_SIZE,
     bytes |-> [j \in {k \in 0..(ID_SIZE - 1) : (id \div Pow256(k)) % 256 # 0}
                  |-> (id \div Pow256(j)) % 256]]

\* u32::from_le_bytes
from_le_bytes(v) ==
    Get(v, 0) + 256 * Get(v, 1) + 65536 * Get(v, 2) + 16777216 * Get(v, 3)

\* The offset of the first byte >= 0x80 at or after i; v.len when there is none.
NextNonAscii(v, i) ==
    LET S == {d \in DOMAIN v.bytes : d >= i /\ v.bytes[d] >= 128}
    IN  IF S = {} THEN v.len ELSE Min(S)

\* UTF-8 validation from offset i on.  The bytes 0x00..0x7F (the zero padding
\* included) are one-byte characters, so the scan resumes at the next byte
\* >= 0x80.  A byte past the end reads as 0 here and so is no continuation byte.
RECURSIVE Utf8From(_, _)
Utf8From(v, i) ==
    IF i >= v.len THEN TRUE
    ELSE LET b0 == Get(v, i)
             In(k, lo, hi) == Get(v, i + k) >= lo /\ Get(v, i + k) <= hi
             Cont(k) == In(k, 128, 191)
         IN  CASE b0 < 128 -> Utf8From(v, NextNonAscii(v, i + 1))
               [] b0 >= 194 /\ b0 <= 223 -> Cont(1) /\ Utf8From(v, i + 2)
               [] b0 = 224 -> In(1, 160, 191) /\ Cont(2) /\ Utf8From(v, i + 3)
               [] (b0 >= 225 /\ b0 <= 236) \/ b0 = 238 \/ b0 = 239 ->
                      Cont(1) /\ Cont(2) /\ Utf8From(v, i + 3)
               [] b0 = 237 -> In(1, 128, 159) /\ Cont(2) /\ Utf8From(v, i + 3)
               [] b0 = 240 ->
                      In(1, 144, 191) /\ Cont(2) /\ Cont(3) /\ Utf8From(v, i + 4)
               [] b0 >= 241 /\ b0 <= 243 ->
                      Cont(1) /\ Cont(2) /\ Cont(3) /\ Utf8From(v, i + 4)
               [] b0 = 244 ->
                      In(1, 128, 143) /\ Cont(2) /\ Cont(3) /\ Utf8From(v, i + 4)
               [] OTHER -> FALSE

\* String::from_utf8(bytes).ok()
from_utf8(v) == IF Utf8From(v, NextNonAscii(v, 0)) THEN Some(v) ELSE None

\* let mut field = [0u8; size]; field[..s.len()].copy_from_slice(s.as_bytes())
PaddedField(s, size) == CopyFromSlice(Zeros(size), 0, s)

\* Row::new
RowNew == [id |-> 0, username |-> Zeros(0), email |-> Zeros(0)]

\* Row::serialize_row.  Slicing a field array beyond its size panics.
serialize_row(row) ==
    IF row.username.len > USERNAME_SIZE \/ row.email.len > EMAIL_SIZE
    THEN Panic
    ELSE Extend(Extend(Extend(Zeros(0), to_le_bytes(row.id)),
                       PaddedField(row.username, USERNAME_SIZE)),
                PaddedField(row.email, EMAIL_SIZE))

\* Row::deserialize_row, the `?`s: a field that is not UTF-8 gives None.
deserialize_fields(id, username, email) ==
    IF ~username.some THEN None
    ELSE IF ~email.some THEN None
    ELSE Some([id |-> id, username |-> username.v, email |-> email.v])

\* Row::deserialize_row
deserialize_row(buffer) ==
    IF buffer.len < ID_SIZE + USERNAME_SIZE + EMAIL_SIZE THEN None
    ELSE deserialize_fields(
             from_le_bytes(Slice(buffer, ID_OFFSET, ID_SIZE)),
             from_utf8(Slice(buffer, USERNAME_OFFSET, USERNAME_OFFSET + USERNAME_SIZE)),
             from_utf8(Slice(buffer, EMAIL_OFFSET, EMAIL_OFFSET + EMAIL_SIZE)))

-----------------------------------------------------------------------------
(* The backing file.  Every seek of the program goes to page_num * PAGE_SIZE *)
(* and every transfer is at most PAGE_SIZE bytes long, so the file's bytes   *)
(* are kept in PAGE_SIZE chunks: chunks[p] holds the non-zero bytes of       *)
(* [p * PAGE_SIZE, (p + 1) * PAGE_SIZE), by their offset in the chunk.  No   *)
(* chunk holds a byte at or past the file's length.                          *)

EmptyFile == [len |-> 0, chunks |-> [p \in 0..(TABLE_MAX_PAGES - 1) |-> <<>>]]

\* A read that delivers nothing unless the file has all n bytes.
AvailableWhole(f, off, n) == IF f.len - off >= n THEN n ELSE 0

\* How many of the n bytes wanted at offset off the file has.
Available(f, off, n) ==
    IF f.len <= off THEN 0 ELSE IF f.len - off > n THEN n ELSE f.len - off

\* file.seek(Start(page_num * PAGE_SIZE)); file.read_exact(page): the bytes the
\* file has are copied to the start of the page; at the end of the file
\* read_exact returns an error, which the caller drops, and the rest of the
\* page keeps what it held.
read_exact(f, page_num, page) ==
    LET avail == Available(f, page_num * PAGE_SIZE, page.len)
    IN  CopyFromSlice(page, 0,
            Slice([len |-> PAGE_SIZE, bytes |-> f.chunks[page_num]], 0, avail))

\* file.seek(Start(page_num * PAGE_SIZE)); file.write_all(data): the bytes of
\* the file under data are replaced, the file grows to hold them, and a gap
\* between the old end and the offset reads as zeros.
write_all(f, page_num, data) ==
    IF data.len = 0 THEN f
    ELSE [len |-> Max(f.len, page_num * PAGE_SIZE + data.len),
          chunks |-> [f.chunks EXCEPT ![page_num] =
              CopyFromSlice([len |-> PAGE_SIZE, bytes |-> @], 0, data).bytes]]

-----------------------------------------------------------------------------
(* Pager.  The operators below take and return the table's world            *)
(*     t = [file, file_length, pages, num_rows, status]                     *)
(* status leaves "running" when the call ends the process: "exit" for       *)
(* std::process::exit, "panic" for an index out of range.                   *)

NoPages == [p \in 0..(TABLE_MAX_PAGES - 1) |-> None]

\* Pager::pager_open and Table::db_open: num_rows from the file's length.
RowsInFile(length) == length \div ROW_SIZE

\* Pager::get_page_mut, the bound check.
PageOutOfBounds(page_num) == page_num > TABLE_MAX_PAGES

\* A pager that reads the page from the file at every access.
AlwaysLoad(slot) == TRUE

\* Pager::get_page_mut, whether the slot is loaded now.
MustLoad(slot) == ~slot.some

\* Pager::get_page_mut, the pages the file is taken to hold.
NumPages(length) ==
    (length \div PAGE_SIZE) + (IF length % PAGE_SIZE # 0 THEN 1 ELSE 0)

\* Pager::get_page_mut
get_page_mut(t, page_num) ==
    IF PageOutOfBounds(page_num) THEN [t EXCEPT !.status = "exit"]
    ELSE IF page_num \notin DOMAIN t.pages THEN [t EXCEPT !.status = "panic"]
    ELSE IF MustLoad(t.pages[page_num])
         THEN [t EXCEPT !.pages[page_num] =
                  Some(IF page_num <= NumPages(t.file_length)
                       THEN read_exact(t.file, page_num, Zeros(PAGE_SIZE))
                       ELSE Zeros(PAGE_SIZE))]
         ELSE t

\* Pager::flush
flush(t, page_num, size) ==
    IF page_num \notin DOMAIN t.pages THEN [t EXCEPT !.status = "panic"]
    ELSE IF ~t.pages[page_num].some THEN [t EXCEPT !.status = "exit"]
    ELSE [t EXCEPT !.file = write_all(@, page_num, Slice(t.pages[page_num].v, 0, size))]

-----------------------------------------------------------------------------
(* Cursor *)

\* Cursor::from_start
from_start(t) == [row_num |-> 0, end_of_table |-> (t.num_rows = 0)]

\* Cursor::from_end
from_end(t) == [row_num |-> t.num_rows, end_of_table |-> TRUE]

\* The page taken from the position in the page instead of the page number.
PageOfRowByOffset(row_num) == row_num % ROWS_PER_PAGE

\* The page a row lives in (Cursor::get_value).
PageOfRow(row_num) == row_num \div ROWS_PER_PAGE

\* The offset taken from the page number instead of the position in the page.
RowOffsetByPage(row_num) == (row_num \div ROWS_PER_PAGE) * ROW_SIZE

\* The offset of a row in its page (execute_insert, execute_select).
RowOffset(row_num) == (row_num % ROWS_PER_PAGE) * ROW_SIZE

\* Cursor::get_value: the table with the cursor's page resident.
get_value(t, cursor) == get_page_mut(t, PageOfRow(cursor.row_num))

\* Cursor::advance
advance(cursor, t) ==
    [row_num |-> cursor.row_num + 1,
     end_of_table |-> cursor.end_of_table \/ (cursor.row_num + 1 >= t.num_rows)]

-----------------------------------------------------------------------------
(* Table::db_close *)

\* pager.pages[i] = None, after a flush that returned.
Evict(t, i) == IF t.status # "running" THEN t ELSE [t EXCEPT !.pages[i] = None]

\* A loop turn that flushes the page whether it is resident or not.
flush_any_page(t, i) ==
    IF t.status # "running" THEN t
    ELSE IF i \notin DOMAIN t.pages THEN [t EXCEPT !.status = "panic"]
    ELSE Evict(flush(t, i, PAGE_SIZE), i)

\* One turn of "for i in 0..num_full_pages": a resident page is flushed whole
\* and dropped.
flush_full_page(t, i) ==
    IF t.status # "running" THEN t
    ELSE IF i \notin DOMAIN t.pages THEN [t EXCEPT !.status = "panic"]
    ELSE IF ~t.pages[i].some THEN t
    ELSE Evict(flush(t, i, PAGE_SIZE), i)

\* The turns lo..hi-1 of that loop, in order, by halves.
RECURSIVE FlushFullPages(_, _, _)
FlushFullPages(t, lo, hi) ==
    IF t.status # "running" \/ lo >= hi THEN t
    ELSE IF hi = lo + 1 THEN flush_full_page(t, lo)
    ELSE FlushFullPages(FlushFullPages(t, lo, (lo + hi) \div 2), (lo + hi) \div 2, hi)

\* A close that writes the last page whole.
WholePageSize(num_additional_rows) == PAGE_SIZE

\* The bytes of the last, partial page that are written.
PartialSize(num_additional_rows) == num_additional_rows * ROW_SIZE

\* The partial page at the end, when there is one.
FlushPartialPage(t, page_num, num_additional_rows) ==
    IF num_additional_rows = 0 \/ t.status # "running" THEN t
    ELSE IF page_num \notin DOMAIN t.pages THEN [t EXCEPT !.status = "panic"]
    ELSE IF ~t.pages[page_num].some THEN t
    ELSE Evict(flush(t, page_num, PartialSize(num_additional_rows)), page_num)

\* for i in 0..TABLE_MAX_PAGES: drop what is left.
DropAllPages(t) ==
    IF t.status # "running" THEN t ELSE [t EXCEPT !.pages = NoPages]

\* Table::db_close
db_close_table(t) ==
    LET num_full_pages == t.num_rows \div ROWS_PER_PAGE
        num_additional_rows == t.num_rows % ROWS_PER_PAGE
    IN  DropAllPages(
            FlushPartialPage(FlushFullPages(t, 0, num_full_pages),
                             num_full_pages, num_additional_rows))

-----------------------------------------------------------------------------
(* Executor *)

\* A capacity check that lets one row more in.
IsTableOverfull(n) == n > TABLE_MAX_ROWS

\* execute_insert, the capacity check.
IsTableFull(n) == n >= TABLE_MAX_ROWS

\* An insert that writes its page through to the file.
insert_write_through(t1, cursor, serialized_data) ==
    IF t1.status # "running" THEN [t |-> t1, result |-> t1.status]
    ELSE [t |-> flush([t1 EXCEPT
                         !.pages[PageOfRow(cursor.row_num)] =
                             Some(CopyFromSlice(@.v, RowOffset(cursor.row_num),
                                                serialized_data)),
                         !.num_rows = @ + 1],
                      PageOfRow(cursor.row_num), PAGE_SIZE),
          result |-> "Success"]

\* execute_insert, from the copy into the page on: t1 is the table with the
\* cursor's page resident.
insert_at(t1, cursor, serialized_data) ==
    IF t1.status # "running" THEN [t |-> t1, result |-> t1.status]
    ELSE [t |-> [t1 EXCEPT
                   !.pages[PageOfRow(cursor.row_num)] =
                       Some(CopyFromSlice(@.v, RowOffset(cursor.row_num),
                                          serialized_data)),
                   !.num_rows = @ + 1],
          result |-> "Success"]

\* execute_insert, from the serialized row on.
insert_serialized(t, cursor, serialized_data) ==
    IF serialized_data = Panic
    THEN [t |-> [t EXCEPT !.status = "panic"], result |-> "panic"]
    ELSE insert_at(get_value(t, cursor), cursor, serialized_data)

\* An insert that resolves the cursor's page before the capacity check.
execute_insert_check_last(t, statement) ==
    IF IsTableFull(t.num_rows)
    THEN [t |-> get_value(t, from_end(t)), result |-> "TableFull"]
    ELSE insert_serialized(t, from_end(t), serialize_row(statement.row_to_insert))

\* execute_insert
execute_insert(t, statement) ==
    IF IsTableFull(t.num_rows) THEN [t |-> t, result |-> "TableFull"]
    ELSE insert_serialized(t, from_end(t), serialize_row(statement.row_to_insert))

\* The body of execute_select's loop from the slice of the page on: t1 is the
\* table with the cursor's page resident.
select_row(s, t1) ==
    IF t1.status # "running" THEN [s EXCEPT !.t = t1]
    ELSE [t |-> t1,
          cursor |-> advance(s.cursor, t1),
          out |-> Append(s.out,
                     deserialize_row(
                         Slice(t1.pages[PageOfRow(s.cursor.row_num)].v,
                               RowOffset(s.cursor.row_num),
                               RowOffset(s.cursor.row_num) + ROW_SIZE)))]

\* One turn of execute_select's loop, on s = [t, cursor, out]: nothing when
\* the loop has ended or the process has.
select_turn(s) ==
    IF s.cursor.end_of_table \/ s.t.status # "running" THEN s
    ELSE select_row(s, get_value(s.t, s.cursor))

\* The rows a run of turns emitted, after the rows emitted before it.
emitted_after(before, s) == [s EXCEPT !.out = before \o @]

RECURSIVE select_turns(_, _)

\* The loop goes on from s, which has emitted s.out already.
more_turns(s, n) == emitted_after(s.out, select_turns([s EXCEPT !.out = <<>>], n))

\* At most n turns of the loop, in order, by halves.
select_turns(s, n) ==
    IF s.cursor.end_of_table \/ s.t.status # "running" \/ n = 0 THEN s
    ELSE IF n = 1 THEN select_turn(s)
    ELSE more_turns(select_turns(s, n \div 2), n - (n \div 2))

\* The turns the loop is given; a scan that needs more is reported "diverged".
ScanFuel == 2048

\* execute_select, after the loop.
select_result(s) ==
    [t |-> s.t,
     out |-> s.out,
     result |-> IF s.t.status # "running" THEN s.t.status
                ELSE IF ~s.cursor.end_of_table THEN "diverged"
                ELSE "Success"]

\* execute_select
execute_select(t) ==
    select_result(
        select_turns([t |-> t, cursor |-> from_start(t), out |-> <<>>], ScanFuel))

\* An insert emits no rows.
NoRows(r) == [t |-> r.t, out |-> <<>>, result |-> r.result]

\* execute_statement
execute_statement(t, statement) ==
    IF statement.stype = "Insert" THEN NoRows(execute_insert(t, statement))
    ELSE execute_select(t)

-----------------------------------------------------------------------------
(* tokenizer.rs.  A line is the sequence of its bytes.                      *)

INSERT == <<105, 110, 115, 101, 114, 116>>
SELECT == <<115, 101, 108, 101, 99, 116>>
DOT_EXIT == <<46, 101, 120, 105, 116>>
U32_MAX_DIGITS == <<4, 2, 9, 4, 9, 6, 7, 2, 9, 5>>

IsWhitespace(c) == c \in {9, 10, 11, 12, 13, 32}
IsDigit(c) == c >= 48 /\ c <= 57

\* str::split_whitespace: the maximal runs of non-whitespace bytes, in order.
split_whitespace(s) ==
    LET starts == {i \in 1..Len(s) :
                      ~IsWhitespace(s[i]) /\ (i = 1 \/ IsWhitespace(s[i - 1]))}
        EndOf(i) == Min({j \in i..Len(s) : j = Len(s) \/ IsWhitespace(s[j + 1])})
        Nth(n) == CHOOSE i \in starts : Cardinality({x \in starts : x < i}) = n - 1
    IN  [n \in 1..Cardinality(starts) |-> SubSeq(s, Nth(n), EndOf(Nth(n)))]

\* The value of a sequence of decimal digits.
RECURSIVE DigitsValue(_)
DigitsValue(d) ==
    IF d = <<>> THEN 0
    ELSE 10 * DigitsValue(SubSeq(d, 1, Len(d) - 1)) + (d[Len(d)] - 48)

\* Whether the digits d, without leading zeros, are at most u32::MAX.
FitsU32(d) ==
    \/ Len(d) < Len(U32_MAX_DIGITS)
    \/ /\ Len(d) = Len(U32_MAX_DIGITS)
       /\ \/ \A i \in 1..Len(d) : d[i] - 48 = U32_MAX_DIGITS[i]
          \/ \E i \in 1..Len(d) :
                /\ d[i] - 48 < U32_MAX_DIGITS[i]
                /\ \A j \in 1..(i - 1) : d[j] - 48 = U32_MAX_DIGITS[j]

\* Leading zeros dropped.
RECURSIVE StripZeros(_)
StripZeros(d) == IF Len(d) > 1 /\ d[1] = 48 THEN StripZeros(Tail(d)) ELSE d

\* str::parse::<u32>: an optional '+', then one or more digits, the value at
\* most u32::MAX.  (Values from 2^31 on are accepted by FitsU32 but exceed the
\* integers of the model checker; the lines read here stay below.)
parse_digits(d) ==
    IF d = <<>> \/ \E i \in 1..Len(d) : ~IsDigit(d[i]) THEN None
    ELSE IF ~FitsU32(StripZeros(d)) THEN None
    ELSE Some(DigitsValue(StripZeros(d)))

parse_u32(tok) == parse_digits(IF tok # <<>> /\ tok[1] = 43 THEN Tail(tok) ELSE tok)

\* str::to_string
to_string(tok) == FromSeq(tok)

\* Statement::new
StatementNew == [stype |-> "Select", row_to_insert |-> RowNew]

\* A length check that lets a username one byte too long through.
FieldsFitLoosely(username, email) ==
    Len(username) <= USERNAME_SIZE + 1 /\ Len(email) <= EMAIL_SIZE

\* The length check of prepare_statement.
FieldsFit(username, email) ==
    Len(username) <= USERNAME_SIZE /\ Len(email) <= EMAIL_SIZE

\* prepare_statement, the match on (id, username, email) with id parsed.
prepare_row(id, username, email) ==
    IF FieldsFit(username, email)
    THEN IF id.some
         THEN [result |-> "Success",
               statement |->
                   [stype |-> "Insert",
                    row_to_insert |->
                        [id |-> id.v,
                         username |-> to_string(username),
                         email |-> to_string(email)]]]
         ELSE [result |-> "SyntaxError", statement |-> StatementNew]
    ELSE [result |-> "SyntaxError", statement |-> StatementNew]

\* prepare_statement, the insert branch on the words of the line.
prepare_insert(parts) ==
    IF Len(parts) < 4 THEN [result |-> "SyntaxError", statement |-> StatementNew]
    ELSE prepare_row(parse_u32(parts[2]), parts[3], parts[4])

\* Statement::prepare_statement.  Slicing the line at byte 6 inside a
\* multi-byte character panics.
prepare_statement(buffer) ==
    IF Len(buffer) > 6 /\ buffer[7] >= 128 /\ buffer[7] <= 191
    THEN [result |-> "panic", statement |-> StatementNew]
    ELSE IF Len(buffer) >= 6 /\ SubSeq(buffer, 1, 6) = INSERT
    THEN prepare_insert(split_whitespace(buffer))
    ELSE IF buffer = SELECT
    THEN [result |-> "Success", statement |-> StatementNew]
    ELSE [result |-> "UnrecognizedStatement", statement |-> StatementNew]

\* do_meta_command: ".exit" ends the process on the spot.
do_meta_command(buffer) ==
    IF buffer = DOT_EXIT THEN "exit" ELSE "CommandUnrecognizedCommand"

-----------------------------------------------------------------------------
(* main.rs: one turn of the command loop on the line read, as                *)
(* [t, op, result, out].                                                     *)

\* The meta branch: lines that start with a dot.
meta_turn(t, m) ==
    [t |-> IF m = "exit" THEN [t EXCEPT !.status = "exit"] ELSE t,
     op |-> "meta", result |-> m, out |-> <<>>]

\* After execute_statement.
executed(stype, r) ==
    [t |-> r.t, op |-> IF stype = "Insert" THEN "insert" ELSE "select",
     result |-> r.result, out |-> r.out]

\* The match on prepare_statement's result: only Success reaches
\* execute_statement.
statement_turn(t, p) ==
    IF p.result = "panic"
    THEN [t |-> [t EXCEPT !.status = "panic"],
          op |-> "prepare", result |-> "panic", out |-> <<>>]
    ELSE IF p.result # "Success"
    THEN [t |-> t, op |-> "prepare", result |-> p.result, out |-> <<>>]
    ELSE executed(p.statement.stype, execute_statement(t, p.statement))

main_turn(t, buffer) ==
    IF buffer # <<>> /\ buffer[1] = 46 THEN meta_turn(t, do_meta_command(buffer))
    ELSE statement_turn(t, prepare_statement(buffer))

-----------------------------------------------------------------------------
(* The state machine *)

Table == [file |-> file, file_length |-> file_length, pages |-> pages,
          num_rows |-> num_rows, status |-> status]

CodecIdle == [pc |-> "idle", row |-> RowNew, buf |-> None, out |-> None]

Init ==
    /\ file = EmptyFile
    /\ status = "off"
    /\ file_length = 0
    /\ pages = NoPages
    /\ num_rows = 0
    /\ input_buffer = <<>>
    /\ op = "none"
    /\ result = "none"
    /\ output = <<>>
    /\ inserted = 0
    /\ opens = 0
    /\ late = 0
    /\ codec = CodecIdle

\* The table's variables after a call that left the world t: a process that
\* ended (exit, panic) holds no table any more.
Settle(t) ==
    /\ file' = t.file
    /\ status' = t.status
    /\ IF t.status \in {"exit", "panic"}
       THEN /\ file_length' = 0
            /\ pages' = NoPages
            /\ num_rows' = 0
       ELSE /\ file_length' = t.file_length
            /\ pages' = t.pages
            /\ num_rows' = t.num_rows

\* Program start: Table::db_open on the backing file (Pager::pager_open inside).
db_open ==
    /\ status # "running"
    /\ status' = "running"
    /\ file_length' = file.len
    /\ pages' = NoPages
    /\ num_rows' = RowsInFile(file.len)
    /\ input_buffer' = <<>>
    /\ op' = "db_open"
    /\ result' = "none"
    /\ output' = <<>>
    /\ opens' = opens + 1
    /\ UNCHANGED <<file, inserted, late, codec>>

\* A db_close that returned leaves the table closed.
Closed(t) == IF t.status = "running" THEN [t EXCEPT !.status = "closed"] ELSE t

\* Table::db_close
db_close ==
    /\ status = "running"
    /\ Settle(Closed(db_close_table(Table)))
    /\ op' = "db_close"
    /\ result' = "none"
    /\ output' = <<>>
    /\ UNCHANGED <<input_buffer, inserted, opens, late, codec>>

\* main: read_input delivers the line, then one turn of the loop.
Succeeded(r) == r.op = "insert" /\ r.result = "Success"

Commit(r) ==
    /\ Settle(r.t)
    /\ op' = r.op
    /\ result' = r.result
    /\ output' = r.out
    /\ inserted' = IF Succeeded(r) THEN inserted + 1 ELSE inserted
    /\ late' = IF Succeeded(r) /\ opens > 1 THEN late + 1 ELSE late

main_loop(line) ==
    /\ status = "running"
    /\ input_buffer' = line
    /\ Commit(main_turn(Table, line))
    /\ UNCHANGED <<opens, codec>>

-----------------------------------------------------------------------------
(* The lines typed.  The k-th successful insert carries id k, so that a row  *)
(* names the place it was inserted at; row 2 fills both fields to the last   *)
(* byte and row 3 holds multi-byte characters.                               *)

MaxInserts == 15
MaxOpens == 2
MaxLateInserts == 1

Copies(c, n) == [i \in 1..n |-> c]

RECURSIVE Digits(_)
Digits(k) == IF k < 10 THEN <<48 + k>> ELSE Digits(k \div 10) \o <<48 + (k % 10)>>

UsernameOf(k) ==
    IF k = 2 THEN Copies(117, USERNAME_SIZE)
    ELSE IF k = 3 THEN <<195, 169>>
    ELSE <<117>>

EmailOf(k) ==
    IF k = 2 THEN Copies(101, EMAIL_SIZE)
    ELSE IF k = 3 THEN <<230, 151, 165>>
    ELSE <<101>>

InsertLine(id, username, email) ==
    INSERT \o <<32>> \o id \o <<32>> \o username \o <<32>> \o email

\* The row the k-th successful insert carries.
RowOf(k) == [id |-> k, username |-> FromSeq(UsernameOf(k)), email |-> FromSeq(EmailOf(k))]

ValidLine(k) == InsertLine(Digits(k), UsernameOf(k), EmailOf(k))
LongUsernameLine(k) ==
    InsertLine(Digits(k), Copies(117, USERNAME_SIZE + 1), EmailOf(k))
LongEmailLine(k) ==
    InsertLine(Digits(k), UsernameOf(k), Copies(101, EMAIL_SIZE + 1))

\* insert -1 u e; insert 4294967296 u e; insert 7 u; update; inserted
BadLines ==
    { InsertLine(<<45, 49>>, <<117>>, <<101>>),
      InsertLine(<<52, 50, 57, 52, 57, 54, 55, 50, 57, 54>>, <<117>>, <<101>>),
      INSERT \o <<32, 55, 32, 117>>,
      <<117, 112, 100, 97, 116, 101>>,
      INSERT \o <<101, 100>> }

\* .tables
DOT_TABLES == <<46, 116, 97, 98, 108, 101, 115>>

Open == opens < MaxOpens /\ db_open

Close == db_close

Insert == inserted < MaxInserts /\ main_loop(ValidLine(inserted + 1))

Oversized ==
    \E line \in {LongUsernameLine(inserted + 1), LongEmailLine(inserted + 1)} :
        main_loop(line)

Reject == \E line \in BadLines : main_loop(line)

Select == main_loop(SELECT)

Exit == main_loop(DOT_EXIT)

Meta == main_loop(DOT_TABLES)

Next == Open \/ Close \/ Insert \/ Oversized \/ Reject \/ Select \/ Exit \/ Meta

\* The command loop on a table of a few rows, with every kind of line.
Spec == Init /\ [][Next]_vars

\* Inserts up to the table's capacity and beyond; the sessions after the
\* first insert at most MaxLateInserts rows.
InsertCap ==
    /\ opens = 1 \/ late < MaxLateInserts
    /\ main_loop(ValidLine(inserted + 1))

NextCap == Open \/ Close \/ InsertCap

SpecCap == Init /\ [][NextCap]_vars

\* The table filled until an insert reports TableFull, closed, opened again
\* and scanned.
FillInsert == opens = 1 /\ main_loop(ValidLine(inserted + 1))

FillClose == result = "TableFull" /\ db_close

FillSelect == opens > 1 /\ main_loop(SELECT)

NextFill == Open \/ FillInsert \/ FillClose \/ FillSelect

SpecFill == Init /\ [][NextFill]_vars

\* Rows inserted in the first session only; any session may be closed, and a
\* session after the first scans the table as soon as it is opened.
ReopenInsert == opens = 1 /\ main_loop(ValidLine(inserted + 1))

ReopenSelect == opens > 1 /\ op = "db_open" /\ main_loop(SELECT)

NextReopen == Open \/ Close \/ ReopenInsert \/ ReopenSelect

SpecReopen == Init /\ [][NextReopen]_vars

-----------------------------------------------------------------------------
(* The codec on its own: a row is serialized, the buffer may then be damaged *)
(* (one byte set to 0xFF, or the last byte cut off), and is deserialized.    *)

CodecIds == {0, 1, 256, 16909060, 2147483647}
CodecUsernames ==
    {<<>>, <<97>>, <<195, 169>>, Copies(117, USERNAME_SIZE), Copies(117, USERNAME_SIZE + 1)}
CodecEmails == {<<>>, <<98>>, <<230, 151, 165, 64>>, Copies(101, EMAIL_SIZE)}
CodecRows ==
    {[id |-> i, username |-> to_string(u), email |-> to_string(e)] :
        i \in CodecIds, u \in CodecUsernames, e \in CodecEmails}
DamagedOffsets == {USERNAME_OFFSET, EMAIL_OFFSET - 1, EMAIL_OFFSET, ROW_SIZE - 1}

InitCodec ==
    /\ file = EmptyFile
    /\ status = "off"
    /\ file_length = 0
    /\ pages = NoPages
    /\ num_rows = 0
    /\ input_buffer = <<>>
    /\ op = "none"
    /\ result = "none"
    /\ output = <<>>
    /\ inserted = 0
    /\ opens = 0
    /\ late = 0
    /\ codec \in {[pc |-> "new", row |-> r, buf |-> None, out |-> None] : r \in CodecRows}

Serialized(b) ==
    [codec EXCEPT !.pc = IF b = Panic THEN "panic" ELSE "serialized", !.buf = b]

CodecSerialize ==
    /\ codec.pc = "new"
    /\ codec' = Serialized(serialize_row(codec.row))
    /\ UNCHANGED <<file, status, file_length, pages, num_rows, input_buffer, op,
                   result, output, inserted, opens, late>>

CodecDamage ==
    /\ codec.pc = "serialized"
    /\ \/ \E o \in DamagedOffsets :
            codec' = [codec EXCEPT !.pc = "damaged",
                                   !.buf = CopyFromSlice(@, o, Repeat(255, 1))]
       \/ codec' = [codec EXCEPT !.pc = "damaged", !.buf = Slice(@, 0, ROW_SIZE - 1)]
    /\ UNCHANGED <<file, status, file_length, pages, num_rows, input_buffer, op,
                   result, output, inserted, opens, late>>

CodecDeserialize ==
    /\ codec.pc \in {"serialized", "damaged"}
    /\ codec' = [codec EXCEPT
                    !.pc = IF @ = "serialized" THEN "decoded" ELSE "decoded_damaged",
                    !.out = deserialize_row(codec.buf)]
    /\ UNCHANGED <<file, status, file_length, pages, num_rows, input_buffer, op,
                   result, output, inserted, opens, late>>

NextCodec == CodecSerialize \/ CodecDamage \/ CodecDeserialize

SpecCodec == InitCodec /\ [][NextCodec]_vars

-----------------------------------------------------------------------------
(* Properties *)

\* The step is a turn of main's loop on the given line.
IsTurn(line) ==
    /\ status = "running"
    /\ op' \in {"meta", "prepare", "insert", "select"}
    /\ input_buffer' = line

\* What a scan prints for the k-th row of the workload: the row with its
\* fields at their full widths.
Printed(k) ==
    Some([id |-> k,
          username |-> [len |-> 32, bytes |-> FromSeq(UsernameOf(k)).bytes],
          email |-> [len |-> 255, bytes |-> FromSeq(EmailOf(k)).bytes]])

\* The slot of row i (from 0) in the resident pages.
SlotInPages(i) ==
    Slice(pages[i \div 14].v, (i % 14) * 291, (i % 14) * 291 + 291)

\* The slot of row i (from 0) in the file.
SlotInFile(i) ==
    Slice([len |-> 4096, bytes |-> file.chunks[i \div 14]],
          (i % 14) * 291, (i % 14) * 291 + 291)

\* The file holds the first n rows of the workload.
FileHoldsRows(n) ==
    \A i \in 0..(n - 1) :
        /\ file.len >= (i \div 14) * 4096 + (i % 14) * 291 + 291
        /\ SlotInFile(i) = serialize_row(RowOf(i + 1))

\* C1: after N < 1400 inserts into a table opened on an empty file and a
\* db_close, db_open on the same file gives num_rows = N, and a scan gives
\* exactly the N inserted rows, in insertion order.
C1_PersistenceRoundTrip ==
    (status = "running" /\ opens = 2 /\ inserted < 1400) =>
        /\ num_rows = inserted
        /\ op = "select" =>
              /\ result = "Success"
              /\ Len(output) = inserted
              /\ \A k \in 1..inserted : output[k] = Printed(k)

\* C2: an insert into a table of fewer than 1400 rows succeeds and adds one
\* to num_rows; an insert into a table of 1400 rows returns TableFull and
\* leaves num_rows as it was.
C2_Capacity ==
    [][(status = "running" /\ op' = "insert") =>
          IF num_rows < 1400
          THEN result' = "Success" /\ status' = "running" /\ num_rows' = num_rows + 1
          ELSE result' = "TableFull" /\ status' = "running" /\ num_rows' = num_rows]_vars

C2_Witness ==
    /\ op = "insert"
    /\ result = "TableFull"
    /\ opens = 1
    /\ inserted = 1400
    /\ num_rows = 1400

\* C3: num_rows is at most 1400 in every reachable state.
C3_RowCountBounded == num_rows <= 1400

\* C4: in a session on an empty file with no close, after k inserts a scan
\* gives exactly k rows, and the row at index i is the (i+1)-th inserted row,
\* decoded from bytes that are exactly that row's encoding.
C4_OrderPreserved ==
    (status = "running" /\ opens = 1 /\ op = "select") =>
        /\ result = "Success"
        /\ Len(output) = inserted
        /\ \A i \in 0..(inserted - 1) :
              /\ SlotInPages(i) = serialize_row(RowOf(i + 1))
              /\ output[i + 1] = Printed(i + 1)

C4_Witness ==
    /\ status = "running"
    /\ opens = 1
    /\ op = "select"
    /\ inserted = 15
    /\ Len(output) = 15

\* C5: after N inserts (1 <= N <= 1400) into a table opened on an empty file
\* and a db_close, the file is floor(N / 14) * 4096 + (N mod 14) * 291 bytes
\* long.
C5_FileLength ==
    (status = "closed" /\ opens = 1 /\ inserted >= 1) =>
        file.len = (inserted \div 14) * 4096 + (inserted % 14) * 291

C5_Witness ==
    /\ status = "closed"
    /\ opens = 1
    /\ inserted = 15
    /\ file.len = 4387

\* C6: when the program has ended by .exit, the file holds every row that
\* was inserted.
C6_ExitFlushes == status = "exit" => FileHoldsRows(inserted)

\* C7: a scan never fails and never stops early: it returns success having
\* visited every row from 0 to num_rows - 1.
C7_SelectTotal ==
    op = "select" =>
        /\ status = "running"
        /\ result = "Success"
        /\ Len(output) = num_rows

\* C8: an insert line whose username is longer than 32 bytes or whose email
\* is longer than 255 bytes is rejected by prepare_statement as a syntax error
\* and the table is left as it was; a line with a username of exactly 32
\* bytes and an email of exactly 255 bytes is accepted and executed.
C8_OversizedRejected ==
    [][/\ \A line \in {LongUsernameLine(inserted + 1), LongEmailLine(inserted + 1)} :
             IsTurn(line) =>
                 /\ op' = "prepare"
                 /\ result' = "SyntaxError"
                 /\ status' = "running"
                 /\ UNCHANGED <<file, pages, num_rows, inserted>>
       /\ (IsTurn(ValidLine(2)) /\ inserted = 1 /\ num_rows < 1400) =>
             /\ op' = "insert"
             /\ result' = "Success"
             /\ num_rows' = num_rows + 1]_vars

C8_Witness ==
    /\ status = "running"
    /\ op = "prepare"
    /\ result = "SyntaxError"
    /\ input_buffer = LongEmailLine(inserted + 1)
    /\ inserted = 2
    /\ num_rows = 2

\* The field of a serialized row at off, width bytes wide, is the bytes of v
\* followed by zeros.
IsPadded(buf, off, width, v) ==
    \A i \in 0..(width - 1) :
        Get(buf, off + i) = IF i < v.len THEN Get(v, i) ELSE 0

\* C9: a row whose username is at most 32 bytes and whose email is at most
\* 255 bytes serializes to 291 bytes: the id in 4 bytes, least significant
\* first, then the username and the email, each padded with zeros to its
\* width; deserializing them gives the id and the fields with their padding.
C9_CodecRoundTrip ==
    (codec.pc \in {"new", "serialized", "decoded"}
        /\ codec.row.username.len <= 32 /\ codec.row.email.len <= 255) =>
        /\ codec.pc # "new" =>
              /\ codec.buf.len = 291
              /\ DOMAIN codec.buf.bytes \subseteq 0..290
              /\ \A j \in 0..3 :
                    Get(codec.buf, j) = (codec.row.id \div Pow256(j)) % 256
              /\ IsPadded(codec.buf, 4, 32, codec.row.username)
              /\ IsPadded(codec.buf, 36, 255, codec.row.email)
        /\ codec.pc = "decoded" =>
              codec.out = Some([id |-> codec.row.id,
                                username |-> [len |-> 32,
                                              bytes |-> codec.row.username.bytes],
                                email |-> [len |-> 255,
                                           bytes |-> codec.row.email.bytes]])

C9_Witness ==
    /\ codec.pc = "decoded"
    /\ codec.row.id = 16909060
    /\ codec.row.username.len = 32
    /\ codec.row.email.len = 255
    /\ codec.out.some

\* The bytes of a page outside [lo, hi).
Outside(page, lo, hi) ==
    [o \in {d \in DOMAIN page.bytes : d < lo \/ d >= hi} |-> page.bytes[o]]

\* C10: within a session a resident page stays resident and is not read from
\* the file again: a turn leaves every resident page as it was, but for the
\* slot an insert writes.
C10_PageResidency ==
    [][(status = "running" /\ status' = "running"
            /\ op' \in {"meta", "prepare", "insert", "select"}) =>
          \A p \in DOMAIN pages :
              pages[p].some =>
                  /\ pages'[p].some
                  /\ IF op' = "insert" /\ result' = "Success" /\ p = num_rows \div 14
                     THEN Outside(pages'[p].v, (num_rows % 14) * 291,
                                  (num_rows % 14) * 291 + 291)
                          = Outside(pages[p].v, (num_rows % 14) * 291,
                                    (num_rows % 14) * 291 + 291)
                     ELSE pages'[p] = pages[p]]_vars

C10_Witness ==
    /\ status = "running"
    /\ op = "select"
    /\ opens = 2
    /\ late = 1
    /\ pages[0].some
    /\ pages[1].some

\* C11: an insert that returns TableFull changes nothing: num_rows, the set
\* of resident pages, the contents of every resident page and the file are
\* the same before and after the call.
C11_TableFullFrame ==
    [][(status = "running" /\ op' = "insert" /\ result' = "TableFull") =>
          /\ status' = "running"
          /\ UNCHANGED <<num_rows, pages, file, file_length>>]_vars

C11_Witness ==
    /\ status = "running"
    /\ op = "insert"
    /\ result = "TableFull"
    /\ file.len = 0
    /\ \A p \in DOMAIN pages : pages[p].some /\ pages[p].v.bytes # <<>>

\* C12: a successful insert at row index n = num_rows writes exactly the 291
\* bytes from (n mod 14) * 291 of page n div 14, the encoding of its row, and
\* adds one to num_rows; the range lies inside the 4096-byte page and apart
\* from the range of every other row index, and every other byte of every
\* page is as it was.
C12_InsertFrame ==
    [][(status = "running" /\ op' = "insert" /\ result' = "Success") =>
          LET n == num_rows
              p == n \div 14
              lo == (n % 14) * 291
              hi == (n % 14) * 291 + 291
          IN  /\ num_rows' = n + 1
              /\ p \in DOMAIN pages
              /\ hi <= 4096
              /\ \A i \in (0..1399) \ {n} :
                    \/ i \div 14 # p
                    \/ (i % 14) * 291 + 291 <= lo
                    \/ (i % 14) * 291 >= hi
              /\ pages'[p].some
              /\ pages'[p].v.len = 4096
              /\ DOMAIN pages'[p].v.bytes \subseteq 0..4095
              /\ Slice(pages'[p].v, lo, hi) = serialize_row(RowOf(inserted + 1))
              /\ pages[p].some =>
                    Outside(pages'[p].v, lo, hi) = Outside(pages[p].v, lo, hi)
              /\ \A q \in DOMAIN pages \ {p} : pages'[q] = pages[q]]_vars

C12_Witness ==
    /\ status = "running"
    /\ op = "insert"
    /\ result = "Success"
    /\ opens = 1
    /\ num_rows = 28
    /\ Slice(pages[1].v, 3783, 4074) = serialize_row(RowOf(28))

\* C13: the file is written only by db_close: no turn of the command loop
\* (insert, select, rejected line, meta command) changes the file's length or
\* contents, and a step that changes the file is a db_close.
C13_FileWrittenByClose ==
    [][/\ (status = "running" /\ op' \in {"meta", "prepare", "insert", "select"}) =>
             file' = file
       /\ file' # file => (status = "running" /\ op' = "db_close")]_vars

C13_Witness ==
    /\ status = "running"
    /\ op = "insert"
    /\ result = "Success"
    /\ opens = 2
    /\ num_rows = 2
    /\ file.len = 291

\* C14: a db_close of a table of at most 1400 rows returns, with every one of
\* the 100 page slots empty; it flushes resident slots only, so it never ends
\* the process with the abort of a flush of an unloaded page.
C14_CloseEmptiesCache ==
    [][(status = "running" /\ op' = "db_close" /\ num_rows <= 1400) =>
          /\ status' = "closed"
          /\ Cardinality(DOMAIN pages') = 100
          /\ \A p \in DOMAIN pages' : ~pages'[p].some]_vars

C14_Witness ==
    /\ status = "closed"
    /\ op = "db_close"
    /\ opens = 2
    /\ late = 1
    /\ inserted = 30
    /\ file.len = 2 * 4096 + 2 * 291
    /\ \A p \in DOMAIN pages : ~pages[p].some

\* The 4096 bytes of the file from p * 4096, zero where the file has ended.
FilePage(p) ==
    [len |-> 4096,
     bytes |-> [o \in {d \in DOMAIN file.chunks[p] : p * 4096 + d < file.len}
                  |-> file.chunks[p][o]]]

\* C15: a page that becomes resident holds the file's bytes from p * 4096
\* where the file has them and zeros past the end of the file (all zeros for
\* a page at or beyond the end, the file's bytes then zeros for a partial
\* final page); on an insert this is so outside the slot the insert writes.
C15_PageFaultContents ==
    [][(status = "running" /\ status' = "running" /\ op' \in {"insert", "select"}) =>
          \A p \in DOMAIN pages :
              (~pages[p].some /\ pages'[p].some) =>
                  IF op' = "insert"
                  THEN /\ p = num_rows \div 14
                       /\ Outside(pages'[p].v, (num_rows % 14) * 291,
                                  (num_rows % 14) * 291 + 291)
                          = Outside(FilePage(p), (num_rows % 14) * 291,
                                    (num_rows % 14) * 291 + 291)
                  ELSE pages'[p].v = FilePage(p)]_vars

C15_Witness ==
    /\ status = "running"
    /\ op = "select"
    /\ opens = 2
    /\ late = 0
    /\ file.len = 4096 + 291
    /\ pages[0].some
    /\ pages[1].some
    /\ pages[1].v = FilePage(1)
    /\ Slice(pages[1].v, 0, 291) = serialize_row(RowOf(15))
    /\ DOMAIN pages[1].v.bytes \subseteq 0..290

\* The scan of the table as it is now, run to its end.
ScanFromHere ==
    select_turns([t |-> Table, cursor |-> from_start(Table), out |-> <<>>], ScanFuel)

\* C16: from_start gives row 0 with end_of_table = (num_rows = 0), from_end
\* gives row num_rows with end_of_table set, an advance from a row below
\* num_rows gives the next row with end_of_table set exactly when that row is
\* num_rows or more, and a scan of a table just opened ends after exactly
\* num_rows advances, at row num_rows with end_of_table set.
C16_CursorEndFlag ==
    status = "running" =>
        /\ from_start(Table) = [row_num |-> 0, end_of_table |-> (num_rows = 0)]
        /\ from_end(Table) = [row_num |-> num_rows, end_of_table |-> TRUE]
        /\ \A r \in 0..(num_rows - 1) :
              advance([row_num |-> r, end_of_table |-> FALSE], Table)
                  = [row_num |-> r + 1, end_of_table |-> (r + 1 >= num_rows)]
        /\ op = "db_open" =>
              /\ ScanFromHere.t.status = "running"
              /\ ScanFromHere.cursor = [row_num |-> num_rows, end_of_table |-> TRUE]
              /\ Len(ScanFromHere.out) = num_rows

\* C17: no run ends in an access to a page slot that does not exist or in the
\* abort of get_page_mut's bound check: the process never panics, and it
\* exits only by the .exit command.
C17_PageIndexValid ==
    /\ status # "panic"
    /\ status = "exit" => op = "meta"

\* C18: in a session on a file written by an earlier session, with nothing
\* but scans and a close, no step changes the file's length or contents, and
\* opening the file again gives the same num_rows as the time before.
C18_SelectReadOnly ==
    [][/\ (status = "running" /\ opens >= 2 /\ inserted <= 1400) => file' = file
       /\ (status = "closed" /\ opens >= 2 /\ op' = "db_open") =>
             num_rows' = num_rows]_vars

=============================================================================
